---- MODULE Spec2Model ----
(***************************************************************************)
(* Four digit seven-segment display sketches of                            *)
(* lagacemichel/FourDigitSevenSegmentDisplay.                              *)
(*                                                                         *)
(* The sketches never read a pin, so what a function does to the hardware  *)
(* is a sequence of hardware operations that depends on its arguments      *)
(* only.  Each function of a sketch is an operator that gives that         *)
(* sequence, in the order in which the code executes it:                   *)
(*   <<"pinMode", pin, mode>>        <<"digitalWrite", pin, level>>        *)
(*   <<"delayMicroseconds", us>>     <<"delay", ms>>                       *)
(*   <<"displayDigit", digit, value, decimalPoint>>   (function entry)     *)
(*   <<"displayMinusSign", digit>>                    (function entry)     *)
(*   <<"return", function>>                                                *)
(* The state machine executes one operation per step, so every state       *)
(* between two pin writes is a state of the model.                         *)
(*                                                                         *)
(* A float value is a fixed-point integer: One stands for 1.0, and there   *)
(* are Fine representable values per counter increment.                    *)
(***************************************************************************)
EXTENDS Integers, Sequences, FiniteSets

\* ------------------------------------------------------------------------
\* Bounds of the model
\* ------------------------------------------------------------------------

\* Representable values per counter increment (10: hundredths when the
\* increment is a tenth).
Fine == 10

\* displayNumber is driven with every value within Window representable
\* values of 0 and of 1, 10, ..., 10^(numberOfDigits - 1), of either sign:
\* the values at which the number of digits, the sign or the range test
\* changes.
Window == 25

\* displayDigit is called on its own with every value from Overreach below 0
\* to Overreach above 9.
Overreach == 2

\* ------------------------------------------------------------------------
\* src/FourDigitSevenSegmentDisplay.ino: constants
\* ------------------------------------------------------------------------

SEGMENT_A == 2
SEGMENT_B == 3
SEGMENT_C == 4
SEGMENT_D == 5
SEGMENT_E == 6
SEGMENT_F == 7
SEGMENT_G == 8
SEGMENT_DP == 9

DIGIT_1 == 10
DIGIT_2 == 11
DIGIT_3 == 12
DIGIT_4 == 13
numberOfDigits == 4

digitTimeOn == 1250

\* const float microsecondsInASecond = 1000000.0;
microsecondsInASecond == 1000000

\* const float timeBetweenIncrements = 0.2; the seconds are kept in
\* microseconds.
timeBetweenIncrements == (2 * microsecondsInASecond) \div 10

scaleOfNumber == 1

RECURSIVE Pow10(_)
Pow10(n) == IF n <= 0 THEN 1 ELSE 10 * Pow10(n - 1)

scalingFactor == Pow10(scaleOfNumber)

\* The fixed-point representation of 1.0.
One == scalingFactor * Fine

increment == One \div scalingFactor

\* Mutant of minimumValue: the digit slot of the minus sign is forgotten.
minimumValue_noSignSlot ==
  -((Pow10(numberOfDigits) * One) \div scalingFactor) + increment

minimumValue == -((Pow10(numberOfDigits - 1) * One) \div scalingFactor) + increment

maximumValue == (Pow10(numberOfDigits) * One) \div scalingFactor - increment

segmentPatterns ==
  << \b1111110,   \* 0: a, b, c, d, e, f
     \b0110000,   \* 1: b, c
     \b1101101,   \* 2: a, b, d, e, g
     \b1111001,   \* 3: a, b, c, d, g
     \b0110011,   \* 4: b, c, f, g
     \b1011011,   \* 5: a, c, d, f, g
     \b1011111,   \* 6: a, c, d, e, f, g
     \b1110000,   \* 7: a, b, c
     \b1111111,   \* 8: a, b, c, d, e, f, g
     \b1111011 >> \* 9: a, b, c, d, f, g

\* ------------------------------------------------------------------------
\* The Arduino core, as the sketches use it
\* ------------------------------------------------------------------------

\* The digital pins of the board (0..13) and its analog pins (14..19).
Pins == 0 .. 19

\* digitalWrite(pin, v): any value other than 0 drives the pin HIGH.
Level(v) == IF v = 0 THEN "LOW" ELSE "HIGH"

\* An int (16 bits on the board) passed as the unsigned int of
\* delayMicroseconds, or as the unsigned long of delay.
Unsigned16(n) == n % 65536

\* ------------------------------------------------------------------------
\* src/FourDigitSevenSegmentDisplay.ino: functions
\* ------------------------------------------------------------------------

\* Mutant of extinguishLoop: the loop stops one digit short (< for <=).
RECURSIVE extinguishLoop_short(_)
extinguishLoop_short(currentDigit) ==
  IF currentDigit < DIGIT_4
  THEN << <<"pinMode", currentDigit, "INPUT">> >> \o extinguishLoop_short(currentDigit + 1)
  ELSE << >>

RECURSIVE extinguishLoop(_)
extinguishLoop(currentDigit) ==
  IF currentDigit <= DIGIT_4
  THEN << <<"pinMode", currentDigit, "INPUT">> >> \o extinguishLoop(currentDigit + 1)
  ELSE << >>

extinguishDigits ==
  extinguishLoop(DIGIT_1) \o << <<"return", "extinguishDigits">> >>

\* Mutant of selectedDigitPin: the "- 1" is forgotten.
selectedDigitPin_offByOne(digit) == digit + DIGIT_1

selectedDigitPin(digit) == digit + DIGIT_1 - 1

\* Select requested digit (the last two statements of displayDigit and of
\* displayMinusSign).
selectDigit(digit) ==
  << <<"pinMode", selectedDigitPin(digit), "OUTPUT">>,
     <<"digitalWrite", selectedDigitPin(digit), "LOW">> >>

RECURSIVE minusSegmentLoop(_)
minusSegmentLoop(currentSegment) ==
  IF currentSegment >= SEGMENT_A
  THEN << <<"digitalWrite", currentSegment, "LOW">> >>
         \o minusSegmentLoop(currentSegment - 1)
  ELSE << >>

\* Mutant of displayMinusSign: the decimal point is left as it was.
displayMinusSign_pointKept(digit) ==
  << <<"displayMinusSign", digit>> >>
    \o extinguishDigits
    \o minusSegmentLoop(SEGMENT_F)
    \o << <<"digitalWrite", SEGMENT_G, "HIGH">> >>
    \o selectDigit(digit)

displayMinusSign(digit) ==
  << <<"displayMinusSign", digit>> >>
    \o extinguishDigits
    \o minusSegmentLoop(SEGMENT_F)
    \o << <<"digitalWrite", SEGMENT_DP, "LOW">>,
          <<"digitalWrite", SEGMENT_G, "HIGH">> >>
    \o selectDigit(digit)

\* The elements of segmentPatterns (indices of the sketch, from 0) that
\* displayDigit reads: if ((value >= 0) && (value <= 9)) ... segmentPatterns[value]
segmentPatternsRead(value) ==
  IF (value >= 0) /\ (value <= 9) THEN {value} ELSE {}

\* Mutant of segmentsOf: a value out of 0..9 is clamped to the nearest digit.
segmentsOf_clamped(value) ==
  segmentPatterns[(IF value < 0 THEN 0 ELSE IF value > 9 THEN 9 ELSE value) + 1]

\* int segments = 0; if (...) segments = segmentPatterns[value];
segmentsOf(value) ==
  IF segmentPatternsRead(value) # {} THEN segmentPatterns[value + 1] ELSE 0

\* Mutant of segmentLoop: the pins are walked from SEGMENT_A up to SEGMENT_G.
RECURSIVE segmentLoop_ascending(_, _)
segmentLoop_ascending(currentSegment, segments) ==
  IF currentSegment >= SEGMENT_A
  THEN << <<"digitalWrite", SEGMENT_A + SEGMENT_G - currentSegment, Level(segments % 2)>> >>
         \o segmentLoop_ascending(currentSegment - 1, segments \div 2)
  ELSE << >>

RECURSIVE segmentLoop(_, _)
segmentLoop(currentSegment, segments) ==
  IF currentSegment >= SEGMENT_A
  THEN << <<"digitalWrite", currentSegment, Level(segments % 2)>> >>
         \o segmentLoop(currentSegment - 1, segments \div 2)
  ELSE << >>

\* Mutant of displayDigit: the decimal point is set after the digit is selected.
displayDigit_pointLate(digit, value, decimalPoint) ==
  << <<"displayDigit", digit, value, decimalPoint>> >>
    \o extinguishDigits
    \o segmentLoop(SEGMENT_G, segmentsOf(value))
    \o selectDigit(digit)
    \o << <<"digitalWrite", SEGMENT_DP, Level(IF decimalPoint THEN 1 ELSE 0)>> >>

displayDigit(digit, value, decimalPoint) ==
  << <<"displayDigit", digit, value, decimalPoint>> >>
    \o extinguishDigits
    \o segmentLoop(SEGMENT_G, segmentsOf(value))
    \o << <<"digitalWrite", SEGMENT_DP, Level(IF decimalPoint THEN 1 ELSE 0)>> >>
    \o selectDigit(digit)

\* Mutant of inRange: the upper bound is not tested.
inRange_noUpper(number) == number >= minimumValue

\* Mutant of inRange: strict comparisons, as in the sketches of part_000.
inRange_strict(number) == (number > minimumValue) /\ (number < maximumValue)

\* if ((number >= minimumValue) && (number <= maximumValue))
inRange(number) == (number >= minimumValue) /\ (number <= maximumValue)

\* int integerPart = number;  (number is not negative here: truncation)
integerPartOf(number) == number \div One

\* Mutant of fractionalPartOf: the scaled fraction is rounded, not truncated.
fractionalPartOf_rounded(number, integerPart) ==
  ((number - integerPart * One) * scalingFactor + One \div 2) \div One

\* int fractionalPart = (number - integerPart) * scalingFactor;
fractionalPartOf(number, integerPart) ==
  ((number - integerPart * One) * scalingFactor) \div One

\* The loop "Display fractional part": the operations it executes and the
\* value of currentDigit it leaves.
RECURSIVE fractionalLoop(_, _, _)
fractionalLoop(i, remainingValue, currentDigit) ==
  IF i < scaleOfNumber
  THEN LET digit == remainingValue % 10
           rest  == fractionalLoop(i + 1, remainingValue \div 10, currentDigit - 1)
       IN  [ops |-> displayDigit(currentDigit, digit, FALSE)
                      \o << <<"delayMicroseconds", Unsigned16(digitTimeOn)>> >>
                      \o rest.ops,
            currentDigit |-> rest.currentDigit]
  ELSE [ops |-> << >>, currentDigit |-> currentDigit]

\* Mutant of integerLoop: decimalPoint is never set to false.
RECURSIVE integerLoop_pointKept(_, _, _)
integerLoop_pointKept(remainingValue, currentDigit, decimalPoint) ==
  LET digit == remainingValue % 10
      next  == remainingValue \div 10
      step  == displayDigit(currentDigit, digit, decimalPoint)
                 \o << <<"delayMicroseconds", Unsigned16(digitTimeOn)>> >>
  IN  IF next > 0
      THEN LET rest == integerLoop_pointKept(next, currentDigit - 1, decimalPoint)
           IN  [ops |-> step \o rest.ops, currentDigit |-> rest.currentDigit]
      ELSE [ops |-> step, currentDigit |-> currentDigit - 1]

\* The do-while loop "Display integer part".
RECURSIVE integerLoop(_, _, _)
integerLoop(remainingValue, currentDigit, decimalPoint) ==
  LET digit == remainingValue % 10
      next  == remainingValue \div 10
      step  == displayDigit(currentDigit, digit, decimalPoint)
                 \o << <<"delayMicroseconds", Unsigned16(digitTimeOn)>> >>
  IN  IF next > 0
      THEN LET rest == integerLoop(next, currentDigit - 1, FALSE)
           IN  [ops |-> step \o rest.ops, currentDigit |-> rest.currentDigit]
      ELSE [ops |-> step, currentDigit |-> currentDigit - 1]

\* Mutant of signStep: the minus sign is never displayed.
signStep_never(negative, currentDigit) ==
  [ops |-> << >>, currentDigit |-> currentDigit]

\* if (negative) { displayMinusSign(currentDigit--); delayMicroseconds(digitTimeOn); }
signStep(negative, currentDigit) ==
  IF negative
  THEN [ops |-> displayMinusSign(currentDigit)
                  \o << <<"delayMicroseconds", Unsigned16(digitTimeOn)>> >>,
        currentDigit |-> currentDigit - 1]
  ELSE [ops |-> << >>, currentDigit |-> currentDigit]

\* Mutant of blankHold: the hold does not depend on the digits left.
blankHold_fixed(currentDigit) == Unsigned16(digitTimeOn)

\* delayMicroseconds(digitTimeOn * currentDigit);
blankHold(currentDigit) == Unsigned16(digitTimeOn * currentDigit)

\* The body of the range test of displayNumber.
renderNumber(number, currentDigit) ==
  LET negative     == number < 0
      magnitude    == IF negative THEN -number ELSE number
      integerPart  == integerPartOf(magnitude)
      fractionalPart == fractionalPartOf(magnitude, integerPart)
      frac == fractionalLoop(0, fractionalPart, currentDigit)
      int  == integerLoop(integerPart, frac.currentDigit, TRUE)
      sign == signStep(negative, int.currentDigit)
  IN  [ops |-> frac.ops \o int.ops \o sign.ops, currentDigit |-> sign.currentDigit]

\* Mutant of displayNumber: the digits are not extinguished before the
\* final delay.
displayNumber_noFinalExtinguish(number) ==
  LET rendered == IF inRange(number)
                  THEN renderNumber(number, numberOfDigits)
                  ELSE [ops |-> << >>, currentDigit |-> numberOfDigits]
  IN  rendered.ops
        \o << <<"delayMicroseconds", blankHold(rendered.currentDigit)>>,
              <<"return", "displayNumber">> >>

displayNumber(number) ==
  LET rendered == IF inRange(number)
                  THEN renderNumber(number, numberOfDigits)
                  ELSE [ops |-> << >>, currentDigit |-> numberOfDigits]
  IN  rendered.ops
        \o extinguishDigits
        \o << <<"delayMicroseconds", blankHold(rendered.currentDigit)>>,
              <<"return", "displayNumber">> >>

RECURSIVE setupSegmentLoop(_)
setupSegmentLoop(currentSegment) ==
  IF currentSegment >= SEGMENT_A
  THEN << <<"pinMode", currentSegment, "OUTPUT">> >>
         \o setupSegmentLoop(currentSegment - 1)
  ELSE << >>

\* setup(), up to "Reset counters", which the return step does.
setup ==
  extinguishDigits
    \o setupSegmentLoop(SEGMENT_G)
    \o << <<"pinMode", SEGMENT_DP, "OUTPUT">>,
          <<"return", "setup">> >>

\* The test of loop(), both sides multiplied by microsecondsInASecond:
\* (iterations * digitTimeOn * numberOfDigits / microsecondsInASecond) > timeBetweenIncrements
incrementDue(n) == n * digitTimeOn * numberOfDigits > timeBetweenIncrements

\* if (displayCounter > maximumValue) { displayCounter = minimumValue; }
wrapCounter(counter) == IF counter > maximumValue THEN minimumValue ELSE counter

\* Mutant of loopCounters: the counter goes up two increments at a time.
loopCounters_skipping(counter, n) ==
  IF incrementDue(n + 1)
  THEN [displayCounter |-> wrapCounter(counter + 2 * increment), iterations |-> 0]
  ELSE [displayCounter |-> counter, iterations |-> n + 1]

\* Mutant of loopCounters: the interval test never passes.
loopCounters_neverDue(counter, n) ==
  [displayCounter |-> counter, iterations |-> n + 1]

\* Mutant of loopCounters: the counter goes down instead of up.
loopCounters_descending(counter, n) ==
  IF incrementDue(n + 1)
  THEN [displayCounter |-> wrapCounter(counter - increment), iterations |-> 0]
  ELSE [displayCounter |-> counter, iterations |-> n + 1]

\* loop(), up to the call of displayNumber: the new values of the counters.
loopCounters(counter, n) ==
  IF incrementDue(n + 1)
  THEN [displayCounter |-> wrapCounter(counter + increment), iterations |-> 0]
  ELSE [displayCounter |-> counter, iterations |-> n + 1]

\* ------------------------------------------------------------------------
\* src/FourDigitSevenSegmentDisplay.ino: the functions from call to return
\* ------------------------------------------------------------------------

\* The sum of a sequence of delays.
RECURSIVE Sum(_)
Sum(seq) == IF seq = << >> THEN 0 ELSE Head(seq) + Sum(Tail(seq))

\* What one hardware operation or call marker does to the pins and to the
\* record of the call (the steps PinMode ... DisplayNumberReturn above).
Effect(op, s) ==
  CASE op[1] = "pinMode" ->
         [s EXCEPT !.mode[op[2]] = op[3], !.blanked = FALSE]
    [] op[1] = "digitalWrite" ->
         [s EXCEPT !.level[op[2]] = op[3], !.blanked = FALSE,
                   !.written = @ \cup {op[2]}]
    [] op[1] = "delayMicroseconds" ->
         [s EXCEPT !.delays = Append(@, op[2])]
    [] op[1] = "displayDigit" ->
         [s EXCEPT !.steps = Append(@, [kind |-> "digit", digit |-> op[2],
                                        value |-> op[3], decimalPoint |-> op[4]])]
    [] op[1] = "displayMinusSign" ->
         [s EXCEPT !.steps = Append(@, [kind |-> "sign", digit |-> op[2],
                                        value |-> 0, decimalPoint |-> FALSE])]
    [] op[1] = "return" ->
         IF op[2] = "extinguishDigits"
         THEN [s EXCEPT !.blanked = TRUE, !.written = {}]
         ELSE s

\* The operations ops[i], ops[i + 1], ... executed in order (the test on
\* next makes the evaluation compute each state before the one after it).
RECURSIVE Run(_, _, _)
Run(ops, i, s) ==
  IF i > Len(ops)
  THEN s
  ELSE LET next == Effect(ops[i], s)
       IN  IF next.blanked \in BOOLEAN THEN Run(ops, i + 1, next) ELSE next

\* The functions of the sketch once more, each as the board it returns with
\* (Run of its operations, computed a function at a time).

\* extinguishDigits(): pinMode(currentDigit, INPUT) for DIGIT_1 .. DIGIT_4.
extinguishDigitsDone(s) ==
  [s EXCEPT !.mode = [@ EXCEPT ![DIGIT_1] = "INPUT", ![DIGIT_2] = "INPUT",
                               ![DIGIT_3] = "INPUT", ![DIGIT_4] = "INPUT"],
            !.blanked = TRUE,
            !.written = {}]

\* Select requested digit.
selectDigitDone(s, digit) ==
  [s EXCEPT !.mode[selectedDigitPin(digit)] = "OUTPUT",
            !.level[selectedDigitPin(digit)] = "LOW",
            !.blanked = FALSE,
            !.written = @ \cup {selectedDigitPin(digit)}]

\* The bit of segments that the loop of displayDigit writes to currentSegment:
\* bit 0 to SEGMENT_G, one shift to the right per pin down to SEGMENT_A.
segmentBit(segments, currentSegment) ==
  (segments \div (2 ^ (SEGMENT_G - currentSegment))) % 2

displayDigitDone(s, digit, value, decimalPoint) ==
  LET segments == segmentsOf(value)
  IN
  selectDigitDone(
    [extinguishDigitsDone(s) EXCEPT
       !.level = [@ EXCEPT
                    ![SEGMENT_G] = Level(segmentBit(segments, SEGMENT_G)),
                    ![SEGMENT_F] = Level(segmentBit(segments, SEGMENT_F)),
                    ![SEGMENT_E] = Level(segmentBit(segments, SEGMENT_E)),
                    ![SEGMENT_D] = Level(segmentBit(segments, SEGMENT_D)),
                    ![SEGMENT_C] = Level(segmentBit(segments, SEGMENT_C)),
                    ![SEGMENT_B] = Level(segmentBit(segments, SEGMENT_B)),
                    ![SEGMENT_A] = Level(segmentBit(segments, SEGMENT_A)),
                    ![SEGMENT_DP] = Level(IF decimalPoint THEN 1 ELSE 0)],
       !.steps = Append(@, [kind |-> "digit", digit |-> digit,
                            value |-> value, decimalPoint |-> decimalPoint]),
       !.blanked = FALSE,
       !.written = (SEGMENT_A .. SEGMENT_G) \cup {SEGMENT_DP}],
    digit)

displayMinusSignDone(s, digit) ==
  selectDigitDone(
    [extinguishDigitsDone(s) EXCEPT
       !.level = [@ EXCEPT
                    ![SEGMENT_F] = "LOW", ![SEGMENT_E] = "LOW", ![SEGMENT_D] = "LOW",
                    ![SEGMENT_C] = "LOW", ![SEGMENT_B] = "LOW", ![SEGMENT_A] = "LOW",
                    ![SEGMENT_DP] = "LOW",
                    ![SEGMENT_G] = "HIGH"],
       !.steps = Append(@, [kind |-> "sign", digit |-> digit,
                            value |-> 0, decimalPoint |-> FALSE]),
       !.blanked = FALSE,
       !.written = (SEGMENT_A .. SEGMENT_F) \cup {SEGMENT_DP, SEGMENT_G}],
    digit)

\* delayMicroseconds(n)
delayDone(s, n) == [s EXCEPT !.delays = Append(@, Unsigned16(n))]

\* The loop "Display fractional part".
RECURSIVE fractionalLoopDone(_, _, _, _)
fractionalLoopDone(s, i, remainingValue, currentDigit) ==
  IF i < scaleOfNumber
  THEN fractionalLoopDone(
         delayDone(displayDigitDone(s, currentDigit, remainingValue % 10, FALSE),
                   digitTimeOn),
         i + 1, remainingValue \div 10, currentDigit - 1)
  ELSE [board |-> s, currentDigit |-> currentDigit]

\* The do-while loop "Display integer part".
RECURSIVE integerLoopDone(_, _, _, _)
integerLoopDone(s, remainingValue, currentDigit, decimalPoint) ==
  LET lit == delayDone(displayDigitDone(s, currentDigit, remainingValue % 10,
                                        decimalPoint),
                       digitTimeOn)
  IN  IF remainingValue \div 10 > 0
      THEN integerLoopDone(lit, remainingValue \div 10, currentDigit - 1, FALSE)
      ELSE [board |-> lit, currentDigit |-> currentDigit - 1]

\* if (negative) { displayMinusSign(currentDigit--); delayMicroseconds(digitTimeOn); }
signStepDone(s, negative, currentDigit) ==
  IF negative
  THEN [board |-> delayDone(displayMinusSignDone(s, currentDigit), digitTimeOn),
        currentDigit |-> currentDigit - 1]
  ELSE [board |-> s, currentDigit |-> currentDigit]

\* The body of the range test of displayNumber.
renderNumberDone(s, number, currentDigit) ==
  LET negative     == number < 0
      magnitude    == IF negative THEN -number ELSE number
      integerPart  == integerPartOf(magnitude)
      fractionalPart == fractionalPartOf(magnitude, integerPart)
      frac == fractionalLoopDone(s, 0, fractionalPart, currentDigit)
      int  == integerLoopDone(frac.board, integerPart, frac.currentDigit, TRUE)
  IN  signStepDone(int.board, negative, int.currentDigit)

displayNumberDone(s, number) ==
  LET rendered == IF inRange(number)
                  THEN renderNumberDone(s, number, numberOfDigits)
                  ELSE [board |-> s, currentDigit |-> numberOfDigits]
  IN  delayDone(extinguishDigitsDone(rendered.board),
                blankHold(rendered.currentDigit))

\* ------------------------------------------------------------------------
\* src/unnamed/part_000, first sketch (lines 1-269): digit lines floated,
\* extinguishDigits also turns the segments off
\* ------------------------------------------------------------------------

segmentPatterns_first ==
  << \b01111110, \b00110000, \b01101101, \b01111001, \b00110011,
     \b01011011, \b01011111, \b01110000, \b01111111, \b01111011 >>

minusSign_first == \b00000001

DIGIT_1_first == 10
DIGIT_4_first == 13
numberOfDigits_first == 4

SEGMENT_A_first == 2
SEGMENT_G_first == 8
SEGMENT_DP_first == 9

digitTimeOn_first == 2500

scaleOfNumber_first == 1
scalingFactor_first == Pow10(scaleOfNumber_first)
increment_first == One \div scalingFactor_first
minimumValue_first == -((Pow10(numberOfDigits_first - 1) * One) \div scalingFactor_first)
maximumValue_first == (Pow10(numberOfDigits_first) * One) \div scalingFactor_first

RECURSIVE floatDigits_first(_)
floatDigits_first(currentDigit) ==
  IF currentDigit <= DIGIT_4_first
  THEN << <<"pinMode", currentDigit, "INPUT">> >> \o floatDigits_first(currentDigit + 1)
  ELSE << >>

RECURSIVE segmentsOff_first(_)
segmentsOff_first(currentSegment) ==
  IF currentSegment >= SEGMENT_A_first
  THEN << <<"digitalWrite", currentSegment, "LOW">> >>
         \o segmentsOff_first(currentSegment - 1)
  ELSE << >>

extinguishDigits_first ==
  floatDigits_first(DIGIT_1_first)
    \o segmentsOff_first(SEGMENT_G_first)
    \o << <<"digitalWrite", SEGMENT_DP_first, "LOW">>,
          <<"return", "extinguishDigits">> >>

\* for (...) { digitalWrite(currentSegment, (segments & 1) == 1); segments = segments >> 1; }
RECURSIVE segmentLoop_first(_, _)
segmentLoop_first(currentSegment, segments) ==
  IF currentSegment >= SEGMENT_A_first
  THEN << <<"digitalWrite", currentSegment, Level(IF segments % 2 = 1 THEN 1 ELSE 0)>> >>
         \o segmentLoop_first(currentSegment - 1, segments \div 2)
  ELSE << >>

selectDigit_first(digit) ==
  << <<"pinMode", digit + DIGIT_1_first - 1, "OUTPUT">>,
     <<"digitalWrite", digit + DIGIT_1_first - 1, "LOW">> >>

displayMinusSign_first(digit) ==
  << <<"displayMinusSign", digit>> >>
    \o extinguishDigits_first
    \o segmentLoop_first(SEGMENT_G_first, minusSign_first)
    \o selectDigit_first(digit)

segmentsOf_first(value) ==
  IF (value >= 0) /\ (value <= 9) THEN segmentPatterns_first[value + 1] ELSE 0

displayDigit_first(digit, value, decimalPoint) ==
  << <<"displayDigit", digit, value, decimalPoint>> >>
    \o extinguishDigits_first
    \o segmentLoop_first(SEGMENT_G_first, segmentsOf_first(value))
    \o << <<"digitalWrite", SEGMENT_DP_first, Level(IF decimalPoint THEN 1 ELSE 0)>> >>
    \o selectDigit_first(digit)

\* if ((number > minimumValue) && (number < maximumValue))
inRange_first(number) == (number > minimumValue_first) /\ (number < maximumValue_first)

\* int fractionalPart = number * scalingFactor; fractionalPart = fractionalPart % scalingFactor;
fractionalPartOf_first(number) ==
  ((number * scalingFactor_first) \div One) % scalingFactor_first

RECURSIVE fractionalLoop_first(_, _, _)
fractionalLoop_first(i, remainingValue, currentDigit) ==
  IF i < scaleOfNumber_first
  THEN LET digit == remainingValue % 10
           rest  == fractionalLoop_first(i + 1, remainingValue \div 10, currentDigit - 1)
       IN  [ops |-> displayDigit_first(currentDigit, digit, FALSE)
                      \o << <<"delayMicroseconds", Unsigned16(digitTimeOn_first)>> >>
                      \o rest.ops,
            currentDigit |-> rest.currentDigit]
  ELSE [ops |-> << >>, currentDigit |-> currentDigit]

RECURSIVE integerLoop_first(_, _, _)
integerLoop_first(remainingValue, currentDigit, decimalPoint) ==
  LET digit == remainingValue % 10
      next  == remainingValue \div 10
      step  == displayDigit_first(currentDigit, digit, decimalPoint)
                 \o << <<"delayMicroseconds", Unsigned16(digitTimeOn_first)>> >>
  IN  IF next > 0
      THEN LET rest == integerLoop_first(next, currentDigit - 1, FALSE)
           IN  [ops |-> step \o rest.ops, currentDigit |-> rest.currentDigit]
      ELSE [ops |-> step, currentDigit |-> currentDigit - 1]

renderNumber_first(number, currentDigit) ==
  LET negative     == number < 0
      magnitude    == IF negative THEN -number ELSE number
      frac == fractionalLoop_first(0, fractionalPartOf_first(magnitude), currentDigit)
      int  == integerLoop_first(magnitude \div One, frac.currentDigit, TRUE)
  IN  IF negative
      THEN [ops |-> frac.ops \o int.ops
                      \o displayMinusSign_first(int.currentDigit)
                      \o << <<"delayMicroseconds", Unsigned16(digitTimeOn_first)>> >>,
            currentDigit |-> int.currentDigit - 1]
      ELSE [ops |-> frac.ops \o int.ops, currentDigit |-> int.currentDigit]

displayNumber_first(number) ==
  LET rendered == IF inRange_first(number)
                  THEN renderNumber_first(number, numberOfDigits_first)
                  ELSE [ops |-> << >>, currentDigit |-> numberOfDigits_first]
  IN  rendered.ops
        \o extinguishDigits_first
        \o << <<"delayMicroseconds", Unsigned16(digitTimeOn_first * rendered.currentDigit)>>,
              <<"return", "displayNumber">> >>

\* for (...) { pinMode(currentSegment, OUTPUT); digitalWrite(currentSegment, LOW); }
RECURSIVE setupSegmentLoop_first(_)
setupSegmentLoop_first(currentSegment) ==
  IF currentSegment >= SEGMENT_A_first
  THEN << <<"pinMode", currentSegment, "OUTPUT">>,
          <<"digitalWrite", currentSegment, "LOW">> >>
         \o setupSegmentLoop_first(currentSegment - 1)
  ELSE << >>

setup_first ==
  floatDigits_first(DIGIT_1_first)
    \o setupSegmentLoop_first(SEGMENT_G_first)
    \o << <<"pinMode", SEGMENT_DP_first, "OUTPUT">>,
          <<"digitalWrite", SEGMENT_DP_first, "LOW">>,
          <<"return", "setup_first">> >>

\* const float timeBetweenIncrements = 0.2, in microseconds.
timeBetweenIncrements_first == (2 * microsecondsInASecond) \div 10

\* The test of loop(), both sides multiplied by 1000000:
\* timeBetweenIncrements < (iterations * digitTimeOn * numberOfDigits / 1000000.0)
incrementDue_first(n) ==
  timeBetweenIncrements_first < n * digitTimeOn_first * numberOfDigits_first

\* if (displayCounter >= maximumValue) { displayCounter = minimumValue; }
wrapCounter_first(counter) ==
  IF counter >= maximumValue_first THEN minimumValue_first ELSE counter

\* loop(), up to the call of displayNumber: the new values of the counters.
loopCounters_first(counter, n) ==
  IF incrementDue_first(n + 1)
  THEN [displayCounter |-> wrapCounter_first(counter + increment_first),
        iterations |-> 0]
  ELSE [displayCounter |-> counter, iterations |-> n + 1]

\* The functions of the first sketch once more, each as the board it returns
\* with (Run of its operations, computed a function at a time).

\* extinguishDigits(): the digit pins made inputs, the segments and the
\* decimal point written LOW.
extinguishDigitsDone_first(s) ==
  [s EXCEPT !.mode = [@ EXCEPT ![DIGIT_1_first] = "INPUT",
                               ![DIGIT_1_first + 1] = "INPUT",
                               ![DIGIT_1_first + 2] = "INPUT",
                               ![DIGIT_4_first] = "INPUT"],
            !.level = [@ EXCEPT ![SEGMENT_G_first] = "LOW",
                                ![SEGMENT_G_first - 1] = "LOW",
                                ![SEGMENT_G_first - 2] = "LOW",
                                ![SEGMENT_G_first - 3] = "LOW",
                                ![SEGMENT_G_first - 4] = "LOW",
                                ![SEGMENT_G_first - 5] = "LOW",
                                ![SEGMENT_A_first] = "LOW",
                                ![SEGMENT_DP_first] = "LOW"],
            !.blanked = TRUE,
            !.written = {}]

\* Select requested digit.
selectDigitDone_first(s, digit) ==
  [s EXCEPT !.mode[digit + DIGIT_1_first - 1] = "OUTPUT",
            !.level[digit + DIGIT_1_first - 1] = "LOW",
            !.blanked = FALSE,
            !.written = @ \cup {digit + DIGIT_1_first - 1}]

\* The bit of segments that the segment loop writes to currentSegment: bit 0
\* to SEGMENT_G, one shift to the right per pin down to SEGMENT_A.
segmentBit_first(segments, currentSegment) ==
  (segments \div (2 ^ (SEGMENT_G_first - currentSegment))) % 2

\* The segment loop, from SEGMENT_G down to SEGMENT_A.
segmentLoopDone_first(s, segments) ==
  [s EXCEPT
     !.level = [@ EXCEPT
        ![SEGMENT_G_first] = Level(segmentBit_first(segments, SEGMENT_G_first)),
        ![SEGMENT_G_first - 1] = Level(segmentBit_first(segments, SEGMENT_G_first - 1)),
        ![SEGMENT_G_first - 2] = Level(segmentBit_first(segments, SEGMENT_G_first - 2)),
        ![SEGMENT_G_first - 3] = Level(segmentBit_first(segments, SEGMENT_G_first - 3)),
        ![SEGMENT_G_first - 4] = Level(segmentBit_first(segments, SEGMENT_G_first - 4)),
        ![SEGMENT_G_first - 5] = Level(segmentBit_first(segments, SEGMENT_G_first - 5)),
        ![SEGMENT_A_first] = Level(segmentBit_first(segments, SEGMENT_A_first))],
     !.blanked = FALSE,
     !.written = @ \cup (SEGMENT_A_first .. SEGMENT_G_first)]

displayDigitDone_first(s, digit, value, decimalPoint) ==
  LET segments == segmentsOf_first(value)
      lit == segmentLoopDone_first(
               [extinguishDigitsDone_first(s) EXCEPT
                  !.steps = Append(@, [kind |-> "digit", digit |-> digit,
                                       value |-> value,
                                       decimalPoint |-> decimalPoint])],
               segments)
  IN  selectDigitDone_first(
        [lit EXCEPT !.level[SEGMENT_DP_first] = Level(IF decimalPoint THEN 1 ELSE 0),
                    !.written = @ \cup {SEGMENT_DP_first}],
        digit)

displayMinusSignDone_first(s, digit) ==
  selectDigitDone_first(
    segmentLoopDone_first(
      [extinguishDigitsDone_first(s) EXCEPT
         !.steps = Append(@, [kind |-> "sign", digit |-> digit,
                              value |-> 0, decimalPoint |-> FALSE])],
      minusSign_first),
    digit)

\* The loop "Display fractional part".
RECURSIVE fractionalLoopDone_first(_, _, _, _)
fractionalLoopDone_first(s, i, remainingValue, currentDigit) ==
  IF i < scaleOfNumber_first
  THEN fractionalLoopDone_first(
         delayDone(displayDigitDone_first(s, currentDigit, remainingValue % 10, FALSE),
                   digitTimeOn_first),
         i + 1, remainingValue \div 10, currentDigit - 1)
  ELSE [board |-> s, currentDigit |-> currentDigit]

\* The do-while loop "Display integer part".
RECURSIVE integerLoopDone_first(_, _, _, _)
integerLoopDone_first(s, remainingValue, currentDigit, decimalPoint) ==
  LET lit == delayDone(displayDigitDone_first(s, currentDigit, remainingValue % 10,
                                              decimalPoint),
                       digitTimeOn_first)
  IN  IF remainingValue \div 10 > 0
      THEN integerLoopDone_first(lit, remainingValue \div 10, currentDigit - 1, FALSE)
      ELSE [board |-> lit, currentDigit |-> currentDigit - 1]

\* The body of the range test of displayNumber.
renderNumberDone_first(s, number, currentDigit) ==
  LET negative  == number < 0
      magnitude == IF negative THEN -number ELSE number
      frac == fractionalLoopDone_first(s, 0, fractionalPartOf_first(magnitude),
                                       currentDigit)
      int  == integerLoopDone_first(frac.board, magnitude \div One,
                                    frac.currentDigit, TRUE)
  IN  IF negative
      THEN [board |-> delayDone(displayMinusSignDone_first(int.board, int.currentDigit),
                                digitTimeOn_first),
            currentDigit |-> int.currentDigit - 1]
      ELSE int

displayNumberDone_first(s, number) ==
  LET rendered == IF inRange_first(number)
                  THEN renderNumberDone_first(s, number, numberOfDigits_first)
                  ELSE [board |-> s, currentDigit |-> numberOfDigits_first]
  IN  delayDone(extinguishDigitsDone_first(rendered.board),
                digitTimeOn_first * rendered.currentDigit)

\* ------------------------------------------------------------------------
\* src/unnamed/part_000, second sketch (lines 271-548): digit lines driven
\* HIGH (idle) or LOW (selected), delays in milliseconds
\* ------------------------------------------------------------------------

segmentPatterns_second ==
  << \b01111110, \b00110000, \b01101101, \b01111001, \b00110011,
     \b01011011, \b01011111, \b01110000, \b01111111, \b01111011 >>

minusSign_second == \b00000001

DIGIT_1_second == 2
DIGIT_2_second == 3
DIGIT_3_second == 4
DIGIT_4_second == 5
numberOfDigits_second == 4

SEGMENT_A_second == 6
SEGMENT_B_second == 7
SEGMENT_C_second == 8
SEGMENT_D_second == 9
SEGMENT_E_second == 10
SEGMENT_F_second == 11
SEGMENT_G_second == 12
SEGMENT_DP_second == 13

digitTimeOn_second == 2

scaleOfNumber_second == 1
scalingFactor_second == Pow10(scaleOfNumber_second)
increment_second == One \div scalingFactor_second
minimumValue_second == -((Pow10(numberOfDigits_second - 1) * One) \div scalingFactor_second)
maximumValue_second == (Pow10(numberOfDigits_second) * One) \div scalingFactor_second

\* for (currentDigit = DIGIT_1; currentDigit <= DIGIT_4; currentDigit++) digitalWrite(currentDigit, HIGH);
RECURSIVE cathodesHigh_second(_)
cathodesHigh_second(currentDigit) ==
  IF currentDigit <= DIGIT_4_second
  THEN << <<"digitalWrite", currentDigit, "HIGH">> >> \o cathodesHigh_second(currentDigit + 1)
  ELSE << >>

\* for (currentSegment = SEGMENT_A; currentSegment >= SEGMENT_DP; currentSegment++) digitalWrite(currentSegment, LOW);
\* (the int currentSegment counts up to 32767 at most)
RECURSIVE anodesLow_second(_)
anodesLow_second(currentSegment) ==
  IF currentSegment >= SEGMENT_DP_second /\ currentSegment <= 32767
  THEN << <<"digitalWrite", currentSegment, "LOW">> >> \o anodesLow_second(currentSegment + 1)
  ELSE << >>

extinguishDigits_second ==
  cathodesHigh_second(DIGIT_1_second)
    \o anodesLow_second(SEGMENT_A_second)
    \o << <<"return", "extinguishDigits">> >>

RECURSIVE segmentLoop_second(_, _)
segmentLoop_second(currentSegment, segments) ==
  IF currentSegment >= SEGMENT_A_second
  THEN << <<"digitalWrite", currentSegment, Level(IF segments % 2 = 1 THEN 1 ELSE 0)>> >>
         \o segmentLoop_second(currentSegment - 1, segments \div 2)
  ELSE << >>

\* The loop "Select requested digit".
RECURSIVE selectLoop_second(_, _)
selectLoop_second(currentDigit, selectedPin) ==
  IF currentDigit <= DIGIT_4_second
  THEN << <<"digitalWrite", currentDigit,
            IF currentDigit = selectedPin THEN "LOW" ELSE "HIGH">> >>
         \o selectLoop_second(currentDigit + 1, selectedPin)
  ELSE << >>

displayMinusSign_second(digit) ==
  << <<"displayMinusSign", digit>> >>
    \o segmentLoop_second(SEGMENT_G_second, minusSign_second)
    \o << <<"digitalWrite", SEGMENT_DP_second, Level(0)>> >>
    \o selectLoop_second(DIGIT_1_second, digit + DIGIT_1_second - 1)

segmentsOf_second(value) ==
  IF (value >= 0) /\ (value <= 9) THEN segmentPatterns_second[value + 1] ELSE 0

displayDigit_second(digit, value, decimalPoint) ==
  << <<"displayDigit", digit, value, decimalPoint>> >>
    \o segmentLoop_second(SEGMENT_G_second, segmentsOf_second(value))
    \o << <<"digitalWrite", SEGMENT_DP_second, Level(IF decimalPoint THEN 1 ELSE 0)>> >>
    \o selectLoop_second(DIGIT_1_second, digit + DIGIT_1_second - 1)

inRange_second(number) == (number > minimumValue_second) /\ (number < maximumValue_second)

fractionalPartOf_second(number) ==
  ((number * scalingFactor_second) \div One) % scalingFactor_second

RECURSIVE fractionalLoop_second(_, _, _)
fractionalLoop_second(i, remainingValue, currentDigit) ==
  IF i < scaleOfNumber_second
  THEN LET digit == remainingValue % 10
           rest  == fractionalLoop_second(i + 1, remainingValue \div 10, currentDigit - 1)
       IN  [ops |-> displayDigit_second(currentDigit, digit, FALSE)
                      \o << <<"delay", Unsigned16(digitTimeOn_second)>> >>
                      \o rest.ops,
            currentDigit |-> rest.currentDigit]
  ELSE [ops |-> << >>, currentDigit |-> currentDigit]

RECURSIVE integerLoop_second(_, _, _)
integerLoop_second(remainingValue, currentDigit, decimalPoint) ==
  LET digit == remainingValue % 10
      next  == remainingValue \div 10
      step  == displayDigit_second(currentDigit, digit, decimalPoint)
                 \o << <<"delay", Unsigned16(digitTimeOn_second)>> >>
  IN  IF next > 0
      THEN LET rest == integerLoop_second(next, currentDigit - 1, FALSE)
           IN  [ops |-> step \o rest.ops, currentDigit |-> rest.currentDigit]
      ELSE [ops |-> step, currentDigit |-> currentDigit - 1]

renderNumber_second(number, currentDigit) ==
  LET negative     == number < 0
      magnitude    == IF negative THEN -number ELSE number
      frac == fractionalLoop_second(0, fractionalPartOf_second(magnitude), currentDigit)
      int  == integerLoop_second(magnitude \div One, frac.currentDigit, TRUE)
  IN  IF negative
      THEN [ops |-> frac.ops \o int.ops
                      \o displayMinusSign_second(int.currentDigit)
                      \o << <<"delay", Unsigned16(digitTimeOn_second)>> >>,
            currentDigit |-> int.currentDigit - 1]
      ELSE [ops |-> frac.ops \o int.ops, currentDigit |-> int.currentDigit]

displayNumber_second(number) ==
  LET rendered == IF inRange_second(number)
                  THEN renderNumber_second(number, numberOfDigits_second)
                  ELSE [ops |-> << >>, currentDigit |-> numberOfDigits_second]
  IN  rendered.ops
        \o extinguishDigits_second
        \o << <<"delay", Unsigned16(digitTimeOn_second * rendered.currentDigit)>>,
              <<"return", "displayNumber">> >>

setup_second ==
  << <<"pinMode", DIGIT_1_second, "OUTPUT">>,
     <<"pinMode", DIGIT_2_second, "OUTPUT">>,
     <<"pinMode", DIGIT_3_second, "OUTPUT">>,
     <<"pinMode", DIGIT_4_second, "OUTPUT">>,
     <<"pinMode", SEGMENT_A_second, "OUTPUT">>,
     <<"pinMode", SEGMENT_B_second, "OUTPUT">>,
     <<"pinMode", SEGMENT_C_second, "OUTPUT">>,
     <<"pinMode", SEGMENT_D_second, "OUTPUT">>,
     <<"pinMode", SEGMENT_E_second, "OUTPUT">>,
     <<"pinMode", SEGMENT_F_second, "OUTPUT">>,
     <<"pinMode", SEGMENT_G_second, "OUTPUT">>,
     <<"pinMode", SEGMENT_DP_second, "OUTPUT">> >>
    \o extinguishDigits_second
    \o << <<"return", "setup_second">> >>

\* ------------------------------------------------------------------------
\* State
\* ------------------------------------------------------------------------

VARIABLES
  phase,           \* "reset", "setup", "ready", "displayNumber", "returned"
  queue,           \* the operations the running function has yet to execute
  mode,            \* pin -> "INPUT" | "OUTPUT"  (the data direction register)
  level,           \* pin -> "LOW" | "HIGH"      (the port register)
  displayCounter,  \* the sketch's global counter
  iterations,      \* the sketch's global iteration count
  number,          \* the argument of the current (or last) displayNumber call
  steps,           \* the displayDigit / displayMinusSign calls of that call
  delays,          \* the delays of that call, in order
  blanked,         \* extinguishDigits or setup returned, no pin written since
  written,         \* the pins digitalWrite wrote since extinguishDigits last returned
  previous,        \* the steps and delays of the call before, when it had the same argument
  elapsed          \* microseconds of delay since displayCounter last changed

vars == << phase, queue, mode, level, displayCounter, iterations,
           number, steps, delays, blanked, written, previous, elapsed >>

counters == << displayCounter, iterations >>

history == << previous, elapsed >>

\* No call before, or one with another argument.
NoPrevious == [repeated |-> FALSE, steps |-> << >>, delays |-> << >>]

\* The values displayNumber is driven with.
Centres == {0} \cup { Pow10(k) : k \in 0 .. numberOfDigits - 1 }
               \cup { -Pow10(k) : k \in 0 .. numberOfDigits - 1 }

Values == { c * One + d : c \in Centres, d \in -Window .. Window }
            \cup { 123 * Fine, -34 * Fine }

\* The board after reset: every pin an input, every port bit 0; the globals
\* as their initialisers leave them.
Init ==
  /\ phase = "reset"
  /\ queue = << >>
  /\ mode = [p \in Pins |-> "INPUT"]
  /\ level = [p \in Pins |-> "LOW"]
  /\ displayCounter = minimumValue
  /\ iterations = 0
  /\ number = 0
  /\ steps = << >>
  /\ delays = << >>
  /\ blanked = FALSE
  /\ written = {}
  /\ previous = NoPrevious
  /\ elapsed = 0

\* ------------------------------------------------------------------------
\* Steps of the hardware operations (shared by the sketches)
\* ------------------------------------------------------------------------

Op == Head(queue)

PinMode ==
  /\ queue # << >>
  /\ Op[1] = "pinMode"
  /\ mode' = [mode EXCEPT ![Op[2]] = Op[3]]
  /\ queue' = Tail(queue)
  /\ blanked' = FALSE
  /\ UNCHANGED << history, phase, level, counters, number, steps, delays, written >>

DigitalWrite ==
  /\ queue # << >>
  /\ Op[1] = "digitalWrite"
  /\ level' = [level EXCEPT ![Op[2]] = Op[3]]
  /\ queue' = Tail(queue)
  /\ blanked' = FALSE
  /\ written' = written \cup {Op[2]}
  /\ UNCHANGED << history, phase, mode, counters, number, steps, delays >>

DelayMicroseconds ==
  /\ queue # << >>
  /\ Op[1] = "delayMicroseconds"
  /\ delays' = Append(delays, Op[2])
  /\ queue' = Tail(queue)
  /\ UNCHANGED << history, phase, mode, level, counters, number, steps, blanked, written >>

EnterDisplayDigit ==
  /\ queue # << >>
  /\ Op[1] = "displayDigit"
  /\ steps' = Append(steps, [kind |-> "digit", digit |-> Op[2],
                             value |-> Op[3], decimalPoint |-> Op[4]])
  /\ queue' = Tail(queue)
  /\ UNCHANGED << history, phase, mode, level, counters, number, delays, blanked, written >>

EnterDisplayMinusSign ==
  /\ queue # << >>
  /\ Op[1] = "displayMinusSign"
  /\ steps' = Append(steps, [kind |-> "sign", digit |-> Op[2],
                             value |-> 0, decimalPoint |-> FALSE])
  /\ queue' = Tail(queue)
  /\ UNCHANGED << history, phase, mode, level, counters, number, delays, blanked, written >>

ExtinguishDigitsReturn ==
  /\ queue # << >>
  /\ Op[1] = "return" /\ Op[2] = "extinguishDigits"
  /\ blanked' = TRUE
  /\ written' = {}
  /\ queue' = Tail(queue)
  /\ UNCHANGED << history, phase, mode, level, counters, number, steps, delays >>

DisplayNumberReturn ==
  /\ queue # << >>
  /\ Op[1] = "return" /\ Op[2] = "displayNumber"
  /\ phase' = "returned"
  /\ queue' = Tail(queue)
  /\ UNCHANGED << history, mode, level, counters, number, steps, delays, blanked, written >>

\* ------------------------------------------------------------------------
\* src/FourDigitSevenSegmentDisplay.ino: the sketch
\* ------------------------------------------------------------------------

Setup ==
  /\ phase = "reset"
  /\ phase' = "setup"
  /\ queue' = setup
  /\ UNCHANGED << history, mode, level, counters, number, steps, delays, blanked, written >>

\* "Reset counters" and the return of setup().
SetupReturn ==
  /\ queue # << >>
  /\ Op[1] = "return" /\ Op[2] = "setup"
  /\ displayCounter' = minimumValue
  /\ iterations' = 0
  /\ phase' = "ready"
  /\ blanked' = TRUE
  /\ queue' = Tail(queue)
  /\ UNCHANGED << history, mode, level, number, steps, delays, written >>

\* Mutant of DisplayNumber: displayNumber remembers its last argument and
\* renders nothing when it is called with it again.
DisplayNumber_remembering(v) ==
  /\ phase \in {"ready", "returned"}
  /\ phase' = "displayNumber"
  /\ number' = v
  /\ queue' = IF phase = "returned" /\ v = number
              THEN displayNumber(maximumValue + 1)
              ELSE displayNumber(v)
  /\ steps' = << >>
  /\ delays' = << >>
  /\ previous' = IF phase = "returned" /\ v = number
                 THEN [repeated |-> TRUE, steps |-> steps, delays |-> delays]
                 ELSE NoPrevious
  /\ UNCHANGED << elapsed, mode, level, counters, blanked, written >>

\* A call displayNumber(v).
DisplayNumber(v) ==
  /\ phase \in {"ready", "returned"}
  /\ phase' = "displayNumber"
  /\ number' = v
  /\ queue' = displayNumber(v)
  /\ steps' = << >>
  /\ delays' = << >>
  /\ previous' = IF phase = "returned" /\ v = number
                 THEN [repeated |-> TRUE, steps |-> steps, delays |-> delays]
                 ELSE NoPrevious
  /\ UNCHANGED << elapsed, mode, level, counters, blanked, written >>

Next ==
  \/ Setup
  \/ SetupReturn
  \/ \E v \in Values : DisplayNumber(v)
  \/ PinMode
  \/ DigitalWrite
  \/ DelayMicroseconds
  \/ EnterDisplayDigit
  \/ EnterDisplayMinusSign
  \/ ExtinguishDigitsReturn
  \/ DisplayNumberReturn

Spec == Init /\ [][Next]_vars

\* ------------------------------------------------------------------------
\* src/FourDigitSevenSegmentDisplay.ino: displayDigit and displayMinusSign
\* called on their own, with any int as the value
\* ------------------------------------------------------------------------

GlyphValues == -Overreach .. 9 + Overreach

\* A call displayDigit(d, g, dp).
CallDisplayDigit(d, g, dp) ==
  /\ phase \in {"ready", "returned"}
  /\ phase' = "step"
  /\ queue' = displayDigit(d, g, dp) \o << <<"return", "displayDigit">> >>
  /\ steps' = << >>
  /\ delays' = << >>
  /\ UNCHANGED << history, mode, level, counters, number, blanked, written >>

\* A call displayMinusSign(d).
CallDisplayMinusSign(d) ==
  /\ phase \in {"ready", "returned"}
  /\ phase' = "step"
  /\ queue' = displayMinusSign(d) \o << <<"return", "displayMinusSign">> >>
  /\ steps' = << >>
  /\ delays' = << >>
  /\ UNCHANGED << history, mode, level, counters, number, blanked, written >>

\* The return of displayDigit or of displayMinusSign.
StepReturn ==
  /\ queue # << >>
  /\ Op[1] = "return" /\ Op[2] \in {"displayDigit", "displayMinusSign"}
  /\ phase' = "returned"
  /\ queue' = Tail(queue)
  /\ UNCHANGED << history, mode, level, counters, number, steps, delays, blanked, written >>

NextDigit ==
  \/ Setup
  \/ SetupReturn
  \/ \E d \in 1 .. numberOfDigits, g \in GlyphValues, dp \in BOOLEAN :
       CallDisplayDigit(d, g, dp)
  \/ \E d \in 1 .. numberOfDigits : CallDisplayMinusSign(d)
  \/ PinMode
  \/ DigitalWrite
  \/ EnterDisplayDigit
  \/ EnterDisplayMinusSign
  \/ ExtinguishDigitsReturn
  \/ StepReturn

SpecDigit == Init /\ [][NextDigit]_vars


\* ------------------------------------------------------------------------
\* src/FourDigitSevenSegmentDisplay.ino: setup() and loop(), each call of
\* them one step
\* ------------------------------------------------------------------------

\* The pins, with an empty record of the call.
Board ==
  [mode |-> mode, level |-> level, steps |-> << >>, delays |-> << >>,
   blanked |-> blanked, written |-> written]

\* setup(), from its call to its return.
SetupCall ==
  /\ phase = "reset"
  /\ \E after \in {Run(setup, 1, Board)} :
       /\ mode' = after.mode
       /\ level' = after.level
       /\ steps' = after.steps
       /\ delays' = after.delays
       /\ written' = after.written
  /\ displayCounter' = minimumValue
  /\ iterations' = 0
  /\ blanked' = TRUE
  /\ phase' = "ready"
  /\ UNCHANGED << history, queue, number >>

\* loop(), from its call to its return: the counters, then the whole of
\* displayNumber(displayCounter).
Loop ==
  /\ phase \in {"ready", "returned"}
  /\ \E c \in {loopCounters(displayCounter, iterations)} :
       \E after \in {displayNumberDone(Board, c.displayCounter)} :
         /\ displayCounter' = c.displayCounter
         /\ iterations' = c.iterations
         /\ number' = c.displayCounter
         /\ mode' = after.mode
         /\ level' = after.level
         /\ steps' = after.steps
         /\ delays' = after.delays
         /\ blanked' = after.blanked
         /\ written' = after.written
         /\ previous' = IF phase = "returned" /\ c.displayCounter = number
                        THEN [repeated |-> TRUE, steps |-> steps, delays |-> delays]
                        ELSE NoPrevious
         /\ elapsed' = (IF c.displayCounter = displayCounter THEN elapsed ELSE 0)
                         + Sum(after.delays)
  /\ phase' = "returned"
  /\ UNCHANGED queue

NextLoop ==
  \/ SetupCall
  \/ Loop

SpecLoop == Init /\ [][NextLoop]_vars

\* main() of the Arduino core calls setup() and then loop(), again whenever
\* it returns.
FairLoop == SpecLoop /\ WF_vars(SetupCall) /\ WF_vars(Loop)

\* The call-to-return operators agree with the operations run one by one:
\* from every board a call can start on, running the operations of
\* displayNumber(v) gives the board displayNumberDone gives (holds under
\* Spec), and likewise for displayDigit, displayMinusSign and
\* extinguishDigits (holds under SpecDigit).
DisplayNumberDoneAgrees ==
  phase \in {"ready", "returned"} =>
    \A v \in Values :
      Run(displayNumber(v), 1, Board) = displayNumberDone(Board, v)

DisplayDigitDoneAgrees ==
  phase \in {"ready", "returned"} =>
    /\ \A d \in 1 .. numberOfDigits, g \in GlyphValues, dp \in BOOLEAN :
         Run(displayDigit(d, g, dp), 1, Board) = displayDigitDone(Board, d, g, dp)
    /\ \A d \in 1 .. numberOfDigits :
         Run(displayMinusSign(d), 1, Board) = displayMinusSignDone(Board, d)
    /\ Run(extinguishDigits, 1, Board) = extinguishDigitsDone(Board)

\* ------------------------------------------------------------------------
\* src/unnamed/part_000: the two sketches
\* ------------------------------------------------------------------------

\* delay(ms) of the second sketch.
Delay ==
  /\ queue # << >>
  /\ Op[1] = "delay"
  /\ delays' = Append(delays, Op[2])
  /\ queue' = Tail(queue)
  /\ UNCHANGED << history, phase, mode, level, counters, number, steps, blanked, written >>

InitFirst ==
  /\ phase = "reset"
  /\ queue = << >>
  /\ mode = [p \in Pins |-> "INPUT"]
  /\ level = [p \in Pins |-> "LOW"]
  /\ displayCounter = minimumValue_first
  /\ iterations = 0
  /\ number = 0
  /\ steps = << >>
  /\ delays = << >>
  /\ blanked = FALSE
  /\ written = {}
  /\ previous = NoPrevious
  /\ elapsed = 0

Setup_first ==
  /\ phase = "reset"
  /\ phase' = "setup"
  /\ queue' = setup_first
  /\ UNCHANGED << history, mode, level, counters, number, steps, delays, blanked, written >>

SetupReturn_first ==
  /\ queue # << >>
  /\ Op[1] = "return" /\ Op[2] = "setup_first"
  /\ phase' = "ready"
  /\ blanked' = TRUE
  /\ queue' = Tail(queue)
  /\ UNCHANGED << history, mode, level, counters, number, steps, delays, written >>

DisplayNumber_first(v) ==
  /\ phase \in {"ready", "returned"}
  /\ phase' = "displayNumber"
  /\ number' = v
  /\ queue' = displayNumber_first(v)
  /\ steps' = << >>
  /\ delays' = << >>
  /\ UNCHANGED << history, mode, level, counters, blanked, written >>

NextFirst ==
  \/ Setup_first
  \/ SetupReturn_first
  \/ \E v \in Values : DisplayNumber_first(v)
  \/ PinMode
  \/ DigitalWrite
  \/ DelayMicroseconds
  \/ EnterDisplayDigit
  \/ EnterDisplayMinusSign
  \/ ExtinguishDigitsReturn
  \/ DisplayNumberReturn

SpecFirst == InitFirst /\ [][NextFirst]_vars

\* setup() of the first sketch, from its call to its return.
SetupCall_first ==
  /\ phase = "reset"
  /\ \E after \in {Run(setup_first, 1, Board)} :
       /\ mode' = after.mode
       /\ level' = after.level
       /\ steps' = after.steps
       /\ delays' = after.delays
       /\ written' = after.written
  /\ displayCounter' = minimumValue_first
  /\ iterations' = 0
  /\ blanked' = TRUE
  /\ phase' = "ready"
  /\ UNCHANGED << history, queue, number >>

\* loop() of the first sketch, from its call to its return: the counters,
\* then the whole of displayNumber(displayCounter).
Loop_first ==
  /\ phase \in {"ready", "returned"}
  /\ \E c \in {loopCounters_first(displayCounter, iterations)} :
       \E after \in {displayNumberDone_first(Board, c.displayCounter)} :
         /\ displayCounter' = c.displayCounter
         /\ iterations' = c.iterations
         /\ number' = c.displayCounter
         /\ mode' = after.mode
         /\ level' = after.level
         /\ steps' = after.steps
         /\ delays' = after.delays
         /\ blanked' = after.blanked
         /\ written' = after.written
         /\ previous' = IF phase = "returned" /\ c.displayCounter = number
                        THEN [repeated |-> TRUE, steps |-> steps, delays |-> delays]
                        ELSE NoPrevious
         /\ elapsed' = (IF c.displayCounter = displayCounter THEN elapsed ELSE 0)
                         + Sum(after.delays)
  /\ phase' = "returned"
  /\ UNCHANGED queue

NextLoopFirst ==
  \/ SetupCall_first
  \/ Loop_first

SpecLoopFirst == InitFirst /\ [][NextLoopFirst]_vars

\* The call-to-return operators of the first sketch agree with its
\* operations run one by one (both hold under SpecFirst). The operations of
\* displayNumber are run as a first and a second half, which bounds the
\* depth of the evaluation.
RunHalves(ops, s) ==
  LET half == Len(ops) \div 2
  IN  Run(SubSeq(ops, half + 1, Len(ops)), 1, Run(SubSeq(ops, 1, half), 1, s))

DisplayNumberDoneAgrees_first ==
  phase \in {"ready", "returned"} =>
    \A v \in Values :
      RunHalves(displayNumber_first(v), Board) = displayNumberDone_first(Board, v)

DisplayDigitDoneAgrees_first ==
  phase \in {"ready", "returned"} =>
    /\ \A d \in 1 .. numberOfDigits_first, g \in GlyphValues, dp \in BOOLEAN :
         Run(displayDigit_first(d, g, dp), 1, Board)
           = displayDigitDone_first(Board, d, g, dp)
    /\ \A d \in 1 .. numberOfDigits_first :
         Run(displayMinusSign_first(d), 1, Board)
           = displayMinusSignDone_first(Board, d)
    /\ Run(extinguishDigits_first, 1, Board) = extinguishDigitsDone_first(Board)

InitSecond ==
  /\ phase = "reset"
  /\ queue = << >>
  /\ mode = [p \in Pins |-> "INPUT"]
  /\ level = [p \in Pins |-> "LOW"]
  /\ displayCounter = minimumValue_second
  /\ iterations = 0
  /\ number = 0
  /\ steps = << >>
  /\ delays = << >>
  /\ blanked = FALSE
  /\ written = {}
  /\ previous = NoPrevious
  /\ elapsed = 0

Setup_second ==
  /\ phase = "reset"
  /\ phase' = "setup"
  /\ queue' = setup_second
  /\ UNCHANGED << history, mode, level, counters, number, steps, delays, blanked, written >>

SetupReturn_second ==
  /\ queue # << >>
  /\ Op[1] = "return" /\ Op[2] = "setup_second"
  /\ phase' = "ready"
  /\ blanked' = TRUE
  /\ queue' = Tail(queue)
  /\ UNCHANGED << history, mode, level, counters, number, steps, delays, written >>

DisplayNumber_second(v) ==
  /\ phase \in {"ready", "returned"}
  /\ phase' = "displayNumber"
  /\ number' = v
  /\ queue' = displayNumber_second(v)
  /\ steps' = << >>
  /\ delays' = << >>
  /\ UNCHANGED << history, mode, level, counters, blanked, written >>

NextSecond ==
  \/ Setup_second
  \/ SetupReturn_second
  \/ \E v \in Values : DisplayNumber_second(v)
  \/ PinMode
  \/ DigitalWrite
  \/ Delay
  \/ EnterDisplayDigit
  \/ EnterDisplayMinusSign
  \/ ExtinguishDigitsReturn
  \/ DisplayNumberReturn

SpecSecond == InitSecond /\ [][NextSecond]_vars

\* ------------------------------------------------------------------------
\* Vocabulary of the properties
\* ------------------------------------------------------------------------

DigitPins == DIGIT_1 .. DIGIT_4
SegmentPins == SEGMENT_A .. SEGMENT_DP

DigitPins_second == DIGIT_1_second .. DIGIT_4_second
SegmentPins_second == SEGMENT_A_second .. SEGMENT_DP_second

\* A digit-select line is asserted when its pin is an output driven LOW.
Asserted(pin) == mode[pin] = "OUTPUT" /\ level[pin] = "LOW"

\* A segment line is on when its pin is an output driven HIGH.
SegmentOn(pin) == mode[pin] = "OUTPUT" /\ level[pin] = "HIGH"

InCall == phase \in {"displayNumber", "returned"}

Magnitude(n) == IF n < 0 THEN -n ELSE n

\* The values of the digit steps, in the order of the calls.
IsDigitStep(s) == s.kind = "digit"
DigitValues ==
  LET ds == SelectSeq(steps, IsDigitStep) IN [k \in 1 .. Len(ds) |-> ds[k].value]

\* The numeral whose least significant digit is ds[1].
RECURSIVE Numeral(_)
Numeral(ds) == IF ds = << >> THEN 0 ELSE Head(ds) + 10 * Numeral(Tail(ds))

RECURSIVE NumberOfDigitsOf(_)
NumberOfDigitsOf(n) == IF n < 10 THEN 1 ELSE 1 + NumberOfDigitsOf(n \div 10)

\* ------------------------------------------------------------------------
\* Properties of src/FourDigitSevenSegmentDisplay.ino (under Spec)
\* ------------------------------------------------------------------------

\* C1: whatever the value passed to displayNumber, in range or not, the
\* delays of the call are one digitTimeOn per lit step followed by a blank
\* hold of digitTimeOn x (numberOfDigits - lit steps): numberOfDigits x
\* digitTimeOn in all.
C1_CycleDuration ==
  phase = "returned" =>
    /\ Len(delays) = Len(steps) + 1
    /\ \A k \in 1 .. Len(steps) : delays[k] = digitTimeOn
    /\ delays[Len(steps) + 1] = digitTimeOn * (numberOfDigits - Len(steps))
    /\ Sum(delays) = numberOfDigits * digitTimeOn

C1_Witness ==
  /\ phase = "returned"
  /\ Len(steps) = 3
  /\ delays = << digitTimeOn, digitTimeOn, digitTimeOn, digitTimeOn >>

\* C2: for a value that passes the range guard, displayNumber makes at most
\* numberOfDigits lit steps, every displayDigit / displayMinusSign call gets a
\* digit in 1..numberOfDigits, and every pin a step turns into an output is
\* one of DIGIT_1..DIGIT_4 (never SEGMENT_DP, the pin below DIGIT_1).
C2_StepsWithinDigits ==
  (InCall /\ inRange(number)) =>
    /\ Len(steps) <= numberOfDigits
    /\ \A k \in 1 .. Len(steps) : steps[k].digit \in 1 .. numberOfDigits
    /\ \A i \in 1 .. Len(queue) :
         /\ queue[i][1] \in {"displayDigit", "displayMinusSign"}
              => queue[i][2] \in 1 .. numberOfDigits
         /\ (queue[i][1] = "pinMode" /\ queue[i][3] = "OUTPUT")
              => queue[i][2] \in DigitPins

C2_Witness ==
  /\ phase = "displayNumber"
  /\ number = minimumValue
  /\ Len(steps) = numberOfDigits
  /\ steps[numberOfDigits].digit = 1
  /\ Asserted(DIGIT_1)

\* C3: a call of displayNumber with a value outside minimumValue..maximumValue
\* makes no displayDigit or displayMinusSign step, asserts no digit-select
\* line at any point, and is one hold of numberOfDigits x digitTimeOn.
C3_OutOfRangeBlank ==
  (InCall /\ ~(number >= minimumValue /\ number <= maximumValue)) =>
    /\ steps = << >>
    /\ \A d \in DigitPins : ~Asserted(d)
    /\ delays \in { << >>, << numberOfDigits * digitTimeOn >> }
    /\ phase = "returned" => delays = << numberOfDigits * digitTimeOn >>

C3_Witness ==
  /\ phase = "returned"
  /\ number > maximumValue
  /\ steps = << >>
  /\ delays = << numberOfDigits * digitTimeOn >>

\* C4, as claimed: displayNumber renders v (emits steps) if and only if
\* -10^(N-1)/10^S < v < 10^N/10^S, also for values finer than the increment.
C4_RendersIffInOpenRange ==
  phase = "returned" =>
    ( steps # << >>
      <=> /\ -((Pow10(numberOfDigits - 1) * One) \div Pow10(scaleOfNumber)) < number
          /\ number < (Pow10(numberOfDigits) * One) \div Pow10(scaleOfNumber) )

\* C4, amended: displayNumber renders v if and only if
\* -(10^(N-1) - 1)/10^S <= v <= (10^N - 1)/10^S (-99.9 <= v <= 999.9); for
\* the multiples of the increment 10^-S, and only for them, this is the same
\* as -10^(N-1)/10^S < v < 10^N/10^S.
C4_RendersIffInClosedRange ==
  phase = "returned" =>
    /\ steps # << >>
         <=> /\ -((Pow10(numberOfDigits - 1) - 1) * Fine) <= number
             /\ number <= (Pow10(numberOfDigits) - 1) * Fine
    /\ number % Fine = 0 =>
         ( steps # << >>
           <=> /\ -((Pow10(numberOfDigits - 1) * One) \div Pow10(scaleOfNumber)) < number
               /\ number < (Pow10(numberOfDigits) * One) \div Pow10(scaleOfNumber) )

\* 999.9 < v < 1000 gives a blank cycle.
C4_Witness ==
  /\ phase = "returned"
  /\ number > (Pow10(numberOfDigits) - 1) * Fine
  /\ number < (Pow10(numberOfDigits) * One) \div Pow10(scaleOfNumber)
  /\ steps = << >>
  /\ delays = << numberOfDigits * digitTimeOn >>

\* C5: no segment line (a-g, dp) is written while a digit-select line is
\* asserted, and a digit-select line is asserted only when all eight segment
\* lines have been written since extinguishDigits deasserted the digit-select
\* lines: deassert, write the segments, assert.
C5_SegmentsBeforeSelect ==
  /\ (queue # << >> /\ Op[1] = "digitalWrite" /\ Op[2] \in SegmentPins)
       => \A d \in DigitPins : ~Asserted(d)
  /\ \A d \in DigitPins : Asserted(d) => SegmentPins \subseteq written

C5_Witness ==
  /\ phase = "displayNumber"
  /\ steps # << >>
  /\ steps[Len(steps)].kind = "sign"
  /\ \E d \in DigitPins : Asserted(d)
  /\ SegmentPins \subseteq written

\* C6: in every state, the states between two pin writes included, at most
\* one of DIGIT_1..DIGIT_4 is asserted (an output driven LOW) and every other
\* one is a floating input.
C6_AtMostOneDigit ==
  /\ Cardinality({ d \in DigitPins : Asserted(d) }) <= 1
  /\ \A d \in DigitPins :
       ~Asserted(d) => (mode[d] = "INPUT" /\ level[d] = "LOW")

C6_Witness ==
  /\ phase = "displayNumber"
  /\ Len(steps) = 2
  /\ Asserted(DIGIT_3)
  /\ \A d \in DigitPins \ {DIGIT_3} : mode[d] = "INPUT"

\* C7, as claimed, in the second sketch of part_000: whenever
\* extinguishDigits (or setup) has returned and no pin has been written
\* since, all digit-select lines are deasserted and all eight segment lines
\* are off.
C7_BlankedAllOff_second ==
  blanked =>
    /\ \A d \in DigitPins_second : ~Asserted(d)
    /\ \A s \in SegmentPins_second : ~SegmentOn(s)

\* C7 on the pins of the first sketch of part_000, whose extinguishDigits
\* also writes the segment lines LOW: holds under SpecFirst.
C7_BlankedAllOff_first ==
  blanked =>
    /\ \A d \in DIGIT_1_first .. DIGIT_4_first : ~Asserted(d)
    /\ \A s \in SEGMENT_A_first .. SEGMENT_DP_first : ~SegmentOn(s)

\* C7 on the pins of src/FourDigitSevenSegmentDisplay.ino, whose
\* extinguishDigits only floats the digit pins: violated under Spec.
C7_BlankedAllOff_ino ==
  blanked =>
    /\ \A d \in DigitPins : ~Asserted(d)
    /\ \A s \in SegmentPins : ~SegmentOn(s)

\* C8: the k-th lit step of displayNumber is given digit position
\* numberOfDigits - k + 1, the pin it selects and the line asserted while it
\* dwells are that position's; a sign step is the last step and comes right
\* after a digit step, one position to its left.
C8_RightToLeft ==
  InCall =>
    /\ \A k \in 1 .. Len(steps) : steps[k].digit = numberOfDigits - k + 1
    /\ (queue # << >> /\ Op[1] = "pinMode" /\ Op[3] = "OUTPUT")
         => Op[2] = DIGIT_1 + (numberOfDigits - Len(steps) + 1) - 1
    /\ (queue # << >> /\ Op[1] = "digitalWrite" /\ Op[2] \in DigitPins)
         => Op[2] = DIGIT_1 + (numberOfDigits - Len(steps) + 1) - 1
    /\ (queue # << >> /\ Op[1] = "delayMicroseconds") =>
         \A d \in DigitPins :
           Asserted(d) => d = DIGIT_1 + (numberOfDigits - Len(steps) + 1) - 1
    /\ \A k \in 1 .. Len(steps) :
         steps[k].kind = "sign" =>
           /\ k = Len(steps)
           /\ k > 1
           /\ steps[k - 1].kind = "digit"
           /\ steps[k].digit = steps[k - 1].digit - 1

C8_Witness ==
  /\ phase = "displayNumber"
  /\ Len(steps) = 3
  /\ steps[3].kind = "sign"
  /\ Op[1] = "delayMicroseconds"
  /\ Asserted(DIGIT_2)

\* C9: the decimal point is requested in exactly one lit step, the digit step
\* of position numberOfDigits - scaleOfNumber (the first integer digit), and
\* while a digit-select line is asserted the decimal-point line is on exactly
\* when that line is the one of position numberOfDigits - scaleOfNumber.
C9_OneDecimalPoint ==
  InCall =>
    /\ \A k \in 1 .. Len(steps) :
         /\ steps[k].decimalPoint <=> (k = scaleOfNumber + 1)
         /\ steps[k].decimalPoint =>
              (steps[k].kind = "digit"
                 /\ steps[k].digit = numberOfDigits - scaleOfNumber)
    /\ \A d \in DigitPins :
         Asserted(d) =>
           ( level[SEGMENT_DP] = "HIGH"
             <=> d = DIGIT_1 + (numberOfDigits - scaleOfNumber) - 1 )
    /\ (phase = "returned" /\ number >= minimumValue /\ number <= maximumValue)
         => Cardinality({ k \in 1 .. Len(steps) : steps[k].decimalPoint }) = 1

C9_Witness ==
  /\ phase = "displayNumber"
  /\ Len(steps) = scaleOfNumber + 1
  /\ Asserted(DIGIT_1 + (numberOfDigits - scaleOfNumber) - 1)
  /\ SegmentOn(SEGMENT_DP)

IsSignStep(s) == s.kind = "sign"

LastStep == steps[Len(steps)]

\* The segment lines a-g that are on.
SegmentsOn == { p \in SEGMENT_A .. SEGMENT_G : SegmentOn(p) }

\* The seven-segment glyph of a digit, as the set of its segment pins.
CanonicalGlyph(g) ==
  CASE g = 0 -> {SEGMENT_A, SEGMENT_B, SEGMENT_C, SEGMENT_D, SEGMENT_E, SEGMENT_F}
    [] g = 1 -> {SEGMENT_B, SEGMENT_C}
    [] g = 2 -> {SEGMENT_A, SEGMENT_B, SEGMENT_D, SEGMENT_E, SEGMENT_G}
    [] g = 3 -> {SEGMENT_A, SEGMENT_B, SEGMENT_C, SEGMENT_D, SEGMENT_G}
    [] g = 4 -> {SEGMENT_B, SEGMENT_C, SEGMENT_F, SEGMENT_G}
    [] g = 5 -> {SEGMENT_A, SEGMENT_C, SEGMENT_D, SEGMENT_F, SEGMENT_G}
    [] g = 6 -> {SEGMENT_A, SEGMENT_C, SEGMENT_D, SEGMENT_E, SEGMENT_F, SEGMENT_G}
    [] g = 7 -> {SEGMENT_A, SEGMENT_B, SEGMENT_C}
    [] g = 8 -> SEGMENT_A .. SEGMENT_G
    [] g = 9 -> {SEGMENT_A, SEGMENT_B, SEGMENT_C, SEGMENT_D, SEGMENT_F, SEGMENT_G}

\* C12: when displayDigit(d, g, dp) returns with g in 0..9, the segment
\* lines a-g that are on are exactly those of the canonical glyph of g.
C12_CanonicalGlyph ==
  (phase = "returned" /\ steps # << >> /\ IsDigitStep(LastStep)
     /\ LastStep.value \in 0 .. 9) =>
    SegmentsOn = CanonicalGlyph(LastStep.value)

C12_Witness ==
  /\ phase = "returned"
  /\ steps # << >>
  /\ IsDigitStep(LastStep)
  /\ LastStep.value = 2
  /\ SegmentsOn = {SEGMENT_A, SEGMENT_B, SEGMENT_D, SEGMENT_E, SEGMENT_G}

\* C13: when displayDigit(d, g, dp) returns with g below 0 or above 9, the
\* seven segment lines a-g are off, no element of segmentPatterns was read
\* (and no call reads one outside indices 0..9), the decimal point is on
\* exactly when dp was requested, and digit d alone is selected.
C13_OutOfRangeGlyphBlank ==
  (phase = "returned" /\ steps # << >> /\ IsDigitStep(LastStep)) =>
    /\ segmentPatternsRead(LastStep.value) \subseteq 0 .. Len(segmentPatterns) - 1
    /\ LastStep.value \notin 0 .. 9 =>
         /\ segmentPatternsRead(LastStep.value) = {}
         /\ SegmentsOn = {}
         /\ SegmentOn(SEGMENT_DP) <=> LastStep.decimalPoint
         /\ { p \in DigitPins : Asserted(p) } = {DIGIT_1 + LastStep.digit - 1}

C13_Witness ==
  /\ phase = "returned"
  /\ steps # << >>
  /\ IsDigitStep(LastStep)
  /\ LastStep.value = 9 + Overreach
  /\ LastStep.decimalPoint
  /\ SegmentsOn = {}
  /\ SegmentOn(SEGMENT_DP)
  /\ Asserted(DIGIT_1 + LastStep.digit - 1)

\* The running displayDigit or displayMinusSign has yet to extinguish the
\* digit that the step before left lit.
ExtinguishPending ==
  \E i \in 1 .. Len(queue) : queue[i][1] = "return" /\ queue[i][2] = "extinguishDigits"

\* C14: whenever displayMinusSign has asserted a digit-select line (a line is
\* asserted after its own extinguishDigits), segment g is on, segments a-f
\* are off and the decimal point is off, whatever displayDigit or
\* displayMinusSign call came before.
C14_MinusPattern ==
  (steps # << >> /\ IsSignStep(LastStep) /\ ~ExtinguishPending
     /\ \E p \in DigitPins : Asserted(p)) =>
    /\ SegmentsOn = {SEGMENT_G}
    /\ ~SegmentOn(SEGMENT_DP)

C14_Witness ==
  /\ phase = "step"
  /\ steps # << >>
  /\ IsSignStep(LastStep)
  /\ Op[1] = "return"
  /\ Asserted(DIGIT_2)
  /\ SegmentsOn = {SEGMENT_G}
  /\ ~SegmentOn(SEGMENT_DP)

\* ------------------------------------------------------------------------
\* More properties of src/FourDigitSevenSegmentDisplay.ino (under Spec)
\* ------------------------------------------------------------------------

C19_BlankAtReturn ==
  phase \in {"ready", "returned"} => \A p \in DigitPins : ~Asserted(p)

C19_Witness ==
  /\ phase = "returned"
  /\ Len(steps) = numberOfDigits
  /\ delays[Len(delays)] = 0
  /\ \A p \in DigitPins : ~Asserted(p)

\* ------------------------------------------------------------------------
\* Properties of loop() (under SpecLoop and FairLoop)
\* ------------------------------------------------------------------------

\* C15: every call of loop() lasts numberOfDigits x digitTimeOn microseconds
\* of delay, and displayCounter changes exactly when timeBetweenIncrements
\* (0.2 s, 40 such calls) of delay has passed since it last changed.
C15_IncrementEvery40Calls ==
  [][ /\ phase' = "returned" => Sum(delays') = numberOfDigits * digitTimeOn
      /\ displayCounter' # displayCounter => elapsed = timeBetweenIncrements
    ]_vars

\* What loop() does instead: the value it starts with is held for 40 calls,
\* every later one for 41 calls, one call more than timeBetweenIncrements.
C15_IncrementEvery41Calls ==
  [][ /\ phase' = "returned" => Sum(delays') = numberOfDigits * digitTimeOn
      /\ displayCounter' # displayCounter =>
           \/ elapsed = timeBetweenIncrements + numberOfDigits * digitTimeOn
           \/ elapsed = timeBetweenIncrements /\ displayCounter = minimumValue
    ]_vars

\* C16: displayCounter is always a multiple of the increment from
\* minimumValue up to maximumValue; whenever it changes it goes to the next
\* multiple, or from maximumValue to minimumValue; and it changes every time
\* the interval test of loop() passes, so no value is skipped and none is
\* held for a second interval.
C16_EveryValueInTurn ==
  /\ [](/\ displayCounter >= minimumValue
        /\ displayCounter <= maximumValue
        /\ (displayCounter - minimumValue) % increment = 0)
  /\ [][ /\ displayCounter' # displayCounter =>
             displayCounter' = (IF displayCounter = maximumValue
                                THEN minimumValue
                                ELSE displayCounter + increment)
         /\ (phase = "returned" /\ iterations' = 0) =>
             displayCounter' # displayCounter
       ]_vars

\* The counter has been incremented twice and the second new value has just
\* been displayed for the first time.
C16_Witness ==
  /\ phase = "returned"
  /\ iterations = 0
  /\ displayCounter = minimumValue + 2 * increment
  /\ number = displayCounter

\* The calls of loop() that a value is displayed for once the counter has
\* changed: the first n for which the interval test passes.
CallsPerIncrement == CHOOSE n \in 1 .. 100 : incrementDue(n) /\ ~incrementDue(n - 1)

\* The calls of loop() still to come before the one that takes
\* displayCounter from maximumValue to minimumValue.
CallsToWrap ==
  ((maximumValue - displayCounter) \div increment) * CallsPerIncrement
    + (CallsPerIncrement - 1 - iterations)

\* A step that brings the wrap of displayCounter one call of loop() nearer,
\* incrementing the counter when the calls left for the value are used up,
\* or that is the wrap from maximumValue to minimumValue.
TowardsWrap ==
  \/ /\ CallsToWrap' = CallsToWrap - 1
     /\ (displayCounter' # displayCounter) = (iterations = CallsPerIncrement - 1)
  \/ /\ CallsToWrap = 0
     /\ displayCounter = maximumValue
     /\ displayCounter' = minimumValue

\* C18: in every state setup() or loop() can be called (the state is the
\* reset state or one a call has returned to); every call of loop() returns,
\* its displayNumber call having reached its final delay after at most
\* numberOfDigits steps; and the call either brings the wrap of
\* displayCounter from maximumValue to minimumValue one call nearer or is
\* that wrap. The calls left before the wrap are never negative, so when
\* loop() is called again and again the counter is incremented and wraps
\* infinitely often.
C18_RunsForever ==
  /\ [](phase \in {"reset", "ready", "returned"})
  /\ [](phase # "reset" => CallsToWrap >= 0)
  /\ [][ phase # "reset" =>
           /\ phase' = "returned"
           /\ Len(steps') <= numberOfDigits
           /\ Len(delays') = Len(steps') + 1
           /\ TowardsWrap
       ]_vars

\* loop() has returned from a call that did not change the counter, after
\* the counter has been incremented, with more calls to come before the
\* wrap.
C18_Witness ==
  /\ phase = "returned"
  /\ displayCounter = minimumValue + increment
  /\ iterations = 1
  /\ previous.repeated
  /\ Len(steps) = numberOfDigits
  /\ CallsToWrap > 0

\* C20: the value loop() passes to displayNumber is displayCounter, it
\* passes the range test of displayNumber, and the call renders it (the
\* cycle is never the blank one).
C20_CounterInRange ==
  phase = "returned" =>
    /\ number = displayCounter
    /\ inRange(number)
    /\ steps # << >>

\* loop() has passed minimumValue, the lower end of the range, and
\* displayNumber has rendered it on all the digits.
C20_Witness ==
  /\ phase = "returned"
  /\ displayCounter = minimumValue
  /\ number = minimumValue
  /\ iterations = numberOfDigits
  /\ Len(steps) = numberOfDigits

\* ------------------------------------------------------------------------
\* Properties of loop() of the first sketch of part_000 (under SpecLoopFirst)
\* ------------------------------------------------------------------------

\* C21: the value loop() of the first sketch passes to displayNumber is
\* displayCounter, it passes the range test minimumValue < number <
\* maximumValue, and the call renders it (the cycle is never the blank one).
C21_CounterInRange_first ==
  phase = "returned" =>
    /\ number = displayCounter
    /\ inRange_first(number)
    /\ steps # << >>

\* What loop() of the first sketch does instead: the counter stays in
\* minimumValue <= displayCounter < maximumValue and the cycle is the blank
\* one exactly for minimumValue, the value it starts from and wraps to.
C21_BlankAtMinimum_first ==
  phase = "returned" =>
    /\ number = displayCounter
    /\ displayCounter >= minimumValue_first
    /\ displayCounter < maximumValue_first
    /\ (steps = << >>) = (displayCounter = minimumValue_first)
    /\ inRange_first(number) = (displayCounter # minimumValue_first)

\* ------------------------------------------------------------------------
\* Properties of the selection in the second sketch of part_000 (under
\* SpecSecond)
\* ------------------------------------------------------------------------

\* The digit-select lines of the second sketch that are outputs driven LOW.
Selected_second == { d \in DigitPins_second : Asserted(d) }

\* The next statement is a digitalWrite to a segment line (a-g, dp).
SegmentWriteNext_second ==
  /\ queue # << >>
  /\ Op[1] = "digitalWrite"
  /\ Op[2] \in SegmentPins_second

\* C22: in every state of a displayNumber call of the second sketch, the
\* states between two pin writes of the selection loops included, at most
\* one digit-select line is LOW.
C22_AtMostOneDigitLow_second ==
  InCall => Cardinality(Selected_second) <= 1

\* What the second sketch does instead: during a delay, and at every return
\* of displayNumber, at most one digit-select line is LOW; between the
\* writes of a selection loop the line of the new position and the line of
\* the position before it, one to its right, can both be LOW, and no others.
C22_TwoAdjacentDigitsLow_second ==
  InCall =>
    /\ Cardinality(Selected_second) <= 2
    /\ \A d, e \in Selected_second : d - e \in {-1, 0, 1}
    /\ ((queue # << >> /\ Op[1] = "delay") \/ phase = "returned")
          => Cardinality(Selected_second) <= 1

\* C23: in a displayNumber call of the second sketch no segment line is
\* written while a digit-select line is LOW.
C23_NoSegmentWriteWhileSelected_second ==
  (InCall /\ SegmentWriteNext_second) => Selected_second = {}

\* What the second sketch does instead: the segments of the first step of a
\* call are written with no digit selected, and the segments of every later
\* step are written while the position of the step before it, one to the
\* right, is still selected.
C23_SegmentsWrittenOnPreviousDigit_second ==
  (InCall /\ SegmentWriteNext_second /\ steps # << >>) =>
    IF Len(steps) = 1
    THEN Selected_second = {}
    ELSE Selected_second = { steps[Len(steps) - 1].digit + DIGIT_1_second - 1 }

====
